---- MODULE Spec2Model ----
(***************************************************************************)
(* Facility-booking workflow of the Resident Facility Management System:   *)
(* the facilityController handlers (createBooking, approveBooking,         *)
(* cancelBooking) behind their routes and middleware, over the             *)
(* facility_bookings table.  Every await on the store is one step of a     *)
(* request, so requests in flight interleave at the store calls.           *)
(***************************************************************************)
EXTENDS Integers, Sequences, FiniteSets, Bags, TLC

VARIABLES
    ledger,     \* facility_bookings: sequence of rows, a row's id is its index
    inflight,   \* bag of the requests that are suspended at a store call
    resp,       \* the response sent by the last step (NoResp if it sent none)
    now,        \* the clock, in ticks
    complaints  \* complaints: sequence of rows, a row's id is its index

vars == <<ledger, inflight, resp, now, complaints>>

----------------------------------------------------------------------------
(* Bounds of the model *)

\* rows the ledger may hold: no booking request is admitted beyond it
MaxBookings == 2
\* requests that may be in flight together in the concurrent specification
MaxInFlight == 2
\* ticks the clock may advance
MaxNow == 4
\* rows the complaints table may hold
MaxComplaints == 2

----------------------------------------------------------------------------
(* Values *)

Null == <<>>
Some(x) == <<x>>

MinutesPerDay == 24 * 60
\* one tick of the clock is half a day
MinutesPerTick == 12 * 60
NowMinutes == now * MinutesPerTick

\* users table: role is 'admin' or 'resident'
Users ==
    [ alice |-> [role |-> "resident"],
      bob   |-> [role |-> "resident"],
      admin |-> [role |-> "admin"],
      carol |-> [role |-> "admin"] ]

UserIds == DOMAIN Users

\* a role check that lets every user through
IsAdminAnyone(u) == TRUE

IsAdmin(u) == Users[u].role = "admin"

----------------------------------------------------------------------------
(* Time-of-day strings.  A request carries start_time and end_time as the  *)
(* strings the client sent; a string is a sequence of characters.  The     *)
(* store keeps a time column as minutes since midnight and prints it as    *)
(* HH:MM:SS.                                                               *)

Digits == <<"0", "1", "2", "3", "4", "5", "6", "7", "8", "9">>

IsDigit(c) == \E n \in 1..10 : Digits[n] = c

DigitVal(c) == (CHOOSE n \in 1..10 : Digits[n] = c) - 1

\* UTF-16 code unit of a character of a time string
CharCode(c) == IF c = ":" THEN 58 ELSE 48 + DigitVal(c)

\* JavaScript's a < b on strings: lexicographic on code units
StrLessNoPrefix(a, b) ==
    \E i \in 1..Len(a) :
        /\ i <= Len(b)
        /\ \A j \in 1..(i - 1) : a[j] = b[j]
        /\ CharCode(a[i]) < CharCode(b[i])

StrLess(a, b) ==
    \/ StrLessNoPrefix(a, b)
    \/ /\ Len(a) < Len(b)
       /\ \A j \in 1..Len(a) : a[j] = b[j]

\* the pattern /^([0-1]?[0-9]|2[0-3]):[0-5][0-9]$/ of createBookingSchema
MatchesTimePattern(s) ==
    LET minutesOk(i) == /\ s[i] = ":"
                        /\ IsDigit(s[i + 1]) /\ DigitVal(s[i + 1]) <= 5
                        /\ IsDigit(s[i + 2])
    IN  \/ /\ Len(s) = 4
           /\ IsDigit(s[1])
           /\ minutesOk(2)
        \/ /\ Len(s) = 5
           /\ IsDigit(s[1]) /\ IsDigit(s[2])
           /\ \/ DigitVal(s[1]) <= 1
              \/ DigitVal(s[1]) = 2 /\ DigitVal(s[2]) <= 3
           /\ minutesOk(3)

\* the store reading 'H:MM' or 'HH:MM' into a time column
ParseTime(s) ==
    IF Len(s) = 4
    THEN 60 * DigitVal(s[1]) + 10 * DigitVal(s[3]) + DigitVal(s[4])
    ELSE 60 * (10 * DigitVal(s[1]) + DigitVal(s[2]))
         + 10 * DigitVal(s[4]) + DigitVal(s[5])

\* the store printing a time column: HH:MM:SS
FormatTime(m) ==
    LET h == m \div 60
        mm == m % 60
    IN  << Digits[(h \div 10) + 1], Digits[(h % 10) + 1], ":",
           Digits[(mm \div 10) + 1], Digits[(mm % 10) + 1], ":", "0", "0" >>

----------------------------------------------------------------------------
(* The facilities table.  Facility management is not part of the booking   *)
(* workflow: the rows are fixed.  The rows are those the migration seeds,  *)
(* with the gym deactivated; "none" is an id that matches no row.          *)

Facilities ==
    [ bbq    |-> [ requires_approval |-> TRUE, is_active |-> TRUE,
                   operating_hours_start |-> 10 * 60,
                   operating_hours_end |-> 20 * 60 ],
      tennis |-> [ requires_approval |-> FALSE, is_active |-> TRUE,
                   operating_hours_start |-> 6 * 60,
                   operating_hours_end |-> 21 * 60 ],
      gym    |-> [ requires_approval |-> FALSE, is_active |-> FALSE,
                   operating_hours_start |-> 5 * 60,
                   operating_hours_end |-> 23 * 60 ] ]

FacilityIds == DOMAIN Facilities \cup {"none"}

\* a facilities row as the client receives it: time columns are printed
FacilityJson(f) ==
    [ requires_approval |-> Facilities[f].requires_approval,
      operating_hours_start |-> FormatTime(Facilities[f].operating_hours_start),
      operating_hours_end |-> FormatTime(Facilities[f].operating_hours_end) ]

----------------------------------------------------------------------------
(* Requests and responses *)

ActiveStatuses == {"approved", "pending"}

\* a request before its handler has filled anything in
BlankRequest ==
    [ op |-> "none", pc |-> "none", actor |-> "alice",
      facility_id |-> "none", booking_date |-> 0,
      start_time |-> Null, end_time |-> Null,
      id |-> 0, status |-> "none", admin_notes |-> Null,
      approved_at |-> Null, date |-> Null, page |-> 0, limit |-> 0,
      updates |-> [ priority |-> Null, admin_notes |-> Null ] ]

\* items, total and totalPages are the page and the pagination of a listing
NoResp ==
    [ req |-> BlankRequest, code |-> 0, error |-> "none", row |-> 0,
      fault |-> FALSE, items |-> <<>>, total |-> 0, totalPages |-> 0 ]

InFlight == BagToSet(inflight)

CreatesInFlight ==
    LET creates == { q \in InFlight : q.op = "create" }
        RECURSIVE Count(_)
        Count(S) == IF S = {} THEN 0
                    ELSE LET q == CHOOSE x \in S : TRUE
                         IN  CopiesIn(q, inflight) + Count(S \ {q})
    IN  Count(creates)

\* the request q is suspended at its next store call as q2
Suspend(q, q2) ==
    /\ inflight' = (inflight (-) SetToBag({q})) (+) SetToBag({q2})
    /\ resp' = NoResp

\* a request that has not reached the store yet is suspended as q
Enter(q) ==
    /\ inflight' = inflight (+) SetToBag({q})
    /\ resp' = NoResp

\* res.status(code).json(...) ends the request q; fault tells whether the
\* store call of this step failed
Respond(q, code, error, row, fault) ==
    /\ inflight' = inflight (-) SetToBag({q})
    /\ resp' = [ NoResp EXCEPT !.req = q, !.code = code, !.error = error,
                               !.row = row, !.fault = fault ]

\* res.status(code).json(...) ends a request that has not been suspended:
\* the requests in flight are other requests
RespondAtOnce(q, code, error, row, fault) ==
    /\ inflight' = inflight
    /\ resp' = [ NoResp EXCEPT !.req = q, !.code = code, !.error = error,
                               !.row = row, !.fault = fault ]

\* .single(): exactly one row, or an error
Single(rows) ==
    IF Cardinality(rows) = 1
    THEN [ data |-> Some(CHOOSE i \in rows : TRUE), error |-> FALSE ]
    ELSE [ data |-> Null, error |-> TRUE ]

StoreFault == [ data |-> Null, error |-> TRUE ]

----------------------------------------------------------------------------
(* POST /facilities/:id/bookings: authenticateToken,                       *)
(* validateRequest(createBookingSchema), createBooking                     *)

\* Joi.date().iso().min('now'): the date, at midnight, is not before now
DateNotBeforeNow(d) == d * MinutesPerDay >= NowMinutes

createBookingSchema(q) ==
    /\ DateNotBeforeNow(q.booking_date)
    /\ MatchesTimePattern(q.start_time)
    /\ MatchesTimePattern(q.end_time)

\* the facilities query without .eq('is_active', true)
SelectAnyFacility(facility_id, fault) ==
    IF fault THEN StoreFault
    ELSE Single({ f \in DOMAIN Facilities : f = facility_id })

\* .from('facilities').select('*').eq('id', facility_id)
\* .eq('is_active', true).single()
SelectActiveFacility(facility_id, fault) ==
    IF fault THEN StoreFault
    ELSE Single({ f \in DOMAIN Facilities :
                    f = facility_id /\ Facilities[f].is_active })

\* start_time < facility.operating_hours_start
\*   || end_time > facility.operating_hours_end, on strings
OutsideOperatingHours(start_time, end_time, facility) ==
    \/ StrLess(start_time, facility.operating_hours_start)
    \/ StrLess(facility.operating_hours_end, end_time)

\* The request is validated and createBooking reads the facility, checks
\* the operating hours and sends the conflicts query.  The facilities table
\* is fixed, so reading it is no step of its own: the request is in flight
\* from its first query on the ledger.
CreateBookingRequest(limit, actor, f, d, s, e, fault) ==
    LET q == [ BlankRequest EXCEPT
                 !.op = "create", !.pc = "conflicts", !.actor = actor,
                 !.facility_id = f, !.booking_date = d,
                 !.start_time = s, !.end_time = e ]
        found == SelectActiveFacility(f, fault)
    IN  /\ BagCardinality(inflight) < limit
        /\ Len(ledger) + CreatesInFlight < MaxBookings
        /\ IF ~createBookingSchema(q)
           THEN RespondAtOnce(q, 400, "Validation error", 0, FALSE)
           ELSE IF found.error \/ found.data = Null
           THEN RespondAtOnce(q, 404, "Facility not found or inactive", 0, fault)
           ELSE IF OutsideOperatingHours(s, e, FacilityJson(found.data[1]))
           THEN RespondAtOnce(q, 400, "Facility is only available between", 0, fault)
           ELSE Enter(q)
        /\ UNCHANGED <<ledger, now, complaints>>

\* the filter without its third clause (a stored booking inside the
\* proposed range)
ConflictFilterNoContained(s1, e1, s2, e2) ==
    \/ s1 <= s2 /\ e1 > s2
    \/ s1 < e2 /\ e1 >= e2

\* the filter with its first clause closed at the stored booking's end
ConflictFilterClosedEnd(s1, e1, s2, e2) ==
    \/ s1 <= s2 /\ e1 >= s2
    \/ s1 < e2 /\ e1 >= e2
    \/ s1 >= s2 /\ e1 <= e2

\* the .or(...) filter of the conflicts query, on a stored row's times
\* (s1, e1) and the proposed times (s2, e2), compared as times by the store
ConflictFilter(s1, e1, s2, e2) ==
    \/ s1 <= s2 /\ e1 > s2
    \/ s1 < e2 /\ e1 >= e2
    \/ s1 >= s2 /\ e1 <= e2

\* the conflicts query without .in('status', ['approved', 'pending'])
ConflictingBookingsAnyStatus(q) ==
    { i \in DOMAIN ledger :
        /\ ledger[i].facility_id = q.facility_id
        /\ ledger[i].booking_date = q.booking_date
        /\ ConflictFilter(ledger[i].start_time, ledger[i].end_time,
                          ParseTime(q.start_time), ParseTime(q.end_time)) }

\* .from('facility_bookings').select('id').eq('facility_id', ...)
\* .eq('booking_date', ...).in('status', ['approved', 'pending']).or(...)
ConflictingBookings(q) ==
    { i \in DOMAIN ledger :
        /\ ledger[i].facility_id = q.facility_id
        /\ ledger[i].booking_date = q.booking_date
        /\ ledger[i].status \in ActiveStatuses
        /\ ConflictFilter(ledger[i].start_time, ledger[i].end_time,
                          ParseTime(q.start_time), ParseTime(q.end_time)) }

\* an initial status that ignores requires_approval
InitialStatusPending(f) == "pending"

\* facility.requires_approval ? 'pending' : 'approved'
InitialStatus(f) ==
    IF Facilities[f].requires_approval THEN "pending" ELSE "approved"

\* the conflicts query returns; the row to insert is built and the insert
\* is sent
CreateBookingConflicts(q, fault) ==
    /\ q.op = "create" /\ q.pc = "conflicts"
    /\ IF fault
       THEN Respond(q, 500, "Failed to check for booking conflicts", 0, fault)
       ELSE IF ConflictingBookings(q) # {}
       THEN Respond(q, 409, "Time slot is already booked or pending approval", 0, fault)
       ELSE Suspend(q, [q EXCEPT
                !.pc = "insert",
                !.status = InitialStatus(q.facility_id),
                !.approved_at =
                    IF InitialStatus(q.facility_id) = "approved"
                    THEN Some(now) ELSE Null ])
    /\ UNCHANGED <<ledger, now, complaints>>

\* an inserted row that never names an approver
NewBookingNoApprover(q) ==
    [ facility_id |-> q.facility_id,
      user_id |-> q.actor,
      booking_date |-> q.booking_date,
      start_time |-> ParseTime(q.start_time),
      end_time |-> ParseTime(q.end_time),
      status |-> q.status,
      admin_notes |-> Null,
      approved_by |-> Null,
      approved_at |-> Null ]

\* the row of the .insert({...}): approved_by and approved_at are spread
\* in only when the initial status is approved
NewBooking(q) ==
    [ facility_id |-> q.facility_id,
      user_id |-> q.actor,
      booking_date |-> q.booking_date,
      start_time |-> ParseTime(q.start_time),
      end_time |-> ParseTime(q.end_time),
      status |-> q.status,
      admin_notes |-> Null,
      approved_by |-> IF q.status = "approved" THEN Some(q.actor) ELSE Null,
      approved_at |-> IF q.status = "approved" THEN q.approved_at ELSE Null ]

\* an insert that stores the row and then reports the failure
CreateBookingInsertPartial(q, fault) ==
    /\ q.op = "create" /\ q.pc = "insert"
    /\ ledger' = Append(ledger, NewBooking(q))
    /\ IF fault
       THEN Respond(q, 500, "Failed to create booking", 0, fault)
       ELSE Respond(q, 201, "none", Len(ledger) + 1, fault)
    /\ UNCHANGED <<now, complaints>>

\* the insert runs in the store and returns
CreateBookingInsert(q, fault) ==
    /\ q.op = "create" /\ q.pc = "insert"
    /\ IF fault
       THEN /\ Respond(q, 500, "Failed to create booking", 0, fault)
            /\ UNCHANGED ledger
       ELSE /\ ledger' = Append(ledger, NewBooking(q))
            /\ Respond(q, 201, "none", Len(ledger) + 1, fault)
    /\ UNCHANGED <<now, complaints>>

----------------------------------------------------------------------------
(* PUT /facilities/bookings/:id/approve: authenticateToken, requireAdmin,  *)
(* validateRequest(approveBookingSchema), approveBooking                   *)

\* requireAdmin passes the request on
requireAdmin(actor) == IsAdmin(actor)

approveBookingSchema(q) == q.status \in {"approved", "rejected"}

\* the request arrives; it passes the middleware, approveBooking checks
\* the role, builds updateData and sends the conditional update
ApproveBookingRequest(limit, actor, id, status, admin_notes) ==
    LET q == [ BlankRequest EXCEPT
                 !.op = "approve", !.pc = "update", !.actor = actor,
                 !.id = id, !.status = status, !.admin_notes = admin_notes,
                 !.approved_at = Some(now) ]
    IN  /\ BagCardinality(inflight) < limit
        /\ IF ~requireAdmin(actor)
           THEN RespondAtOnce(q, 403, "Admin access required", 0, FALSE)
           ELSE IF ~approveBookingSchema(q)
           THEN RespondAtOnce(q, 400, "Validation error", 0, FALSE)
           ELSE IF ~IsAdmin(actor)
           THEN RespondAtOnce(q, 403, "Admin access required", 0, FALSE)
           ELSE Enter(q)
        /\ UNCHANGED <<ledger, now, complaints>>

\* the update without .eq('status', 'pending')
AnyWithId(id) == { i \in DOMAIN ledger : i = id }

\* the rows .update(updateData).eq('id', id).eq('status', 'pending') matches
PendingWithId(id) ==
    { i \in DOMAIN ledger : i = id /\ ledger[i].status = "pending" }

\* updateData that also makes the approver the owner
ApplyUpdateDataTakeOver(row, q) ==
    [ row EXCEPT
        !.status = q.status,
        !.admin_notes = IF q.admin_notes = Null THEN @ ELSE q.admin_notes,
        !.approved_by = Some(q.actor),
        !.approved_at = q.approved_at,
        !.user_id = q.actor ]

\* updateData that does not record the approver
ApplyUpdateDataNoApprover(row, q) ==
    [ row EXCEPT
        !.status = q.status,
        !.admin_notes = IF q.admin_notes = Null THEN @ ELSE q.admin_notes,
        !.approved_at = q.approved_at ]

\* updateData applied to a row; admin_notes is written only when the
\* request carries it (an undefined property is not sent)
ApplyUpdateData(row, q) ==
    [ row EXCEPT
        !.status = q.status,
        !.admin_notes = IF q.admin_notes = Null THEN @ ELSE q.admin_notes,
        !.approved_by = Some(q.actor),
        !.approved_at = q.approved_at ]

\* the conditional update runs in the store and returns through .single()
ApproveBookingUpdate(q, fault) ==
    LET rows == PendingWithId(q.id)
        found == IF fault THEN StoreFault ELSE Single(rows)
    IN  /\ q.op = "approve" /\ q.pc = "update"
        /\ IF fault \/ rows = {}
           THEN UNCHANGED ledger
           ELSE ledger' = [ ledger EXCEPT ![q.id] = ApplyUpdateData(@, q) ]
        /\ IF found.error
           THEN Respond(q, 500, "Failed to update booking status", 0, fault)
           ELSE IF found.data = Null
           THEN Respond(q, 404, "Booking not found or not pending approval", 0, fault)
           ELSE Respond(q, 200, "none", found.data[1], fault)
        /\ UNCHANGED <<now, complaints>>

----------------------------------------------------------------------------
(* PUT /facilities/bookings/:id/cancel: authenticateToken, cancelBooking   *)

\* a permission check that lets only the owner through
AccessDeniedNotOwner(actor, row) == row.user_id # actor

\* req.user?.role !== 'admin' && existingBooking.user_id !== req.user?.id
AccessDenied(actor, row) == ~IsAdmin(actor) /\ row.user_id # actor

\* a status check that refuses nothing
AlreadyCancelledNever(row) == FALSE

\* a status check that gives way to the date check for a past booking
AlreadyCancelledUnlessPast(row) ==
    /\ row.status = "cancelled"
    /\ row.booking_date * MinutesPerDay + row.start_time >= NowMinutes

\* existingBooking.status === 'cancelled'
AlreadyCancelled(row) == row.status = "cancelled"

\* the date of the booking alone, at midnight
BookingDateOnly(row) == row.booking_date * MinutesPerDay

\* new Date(`${booking_date}T${start_time}`), in minutes
BookingDateTime(row) == row.booking_date * MinutesPerDay + row.start_time

\* cancelBooking reads the booking, checks permission, status and date and
\* sends the update: the request is in flight from its first query on
\* the ledger, which this step is
CancelBookingRequest(limit, actor, id, fault) ==
    LET q == [ BlankRequest EXCEPT
                 !.op = "cancel", !.pc = "cancel", !.actor = actor, !.id = id ]
        found == IF fault THEN StoreFault
                 ELSE Single({ i \in DOMAIN ledger : i = id })
        existingBooking == ledger[found.data[1]]
    IN  /\ BagCardinality(inflight) < limit
        /\ IF found.error \/ found.data = Null
           THEN RespondAtOnce(q, 404, "Booking not found", 0, fault)
           ELSE IF AccessDenied(actor, existingBooking)
           THEN RespondAtOnce(q, 403, "Access denied", 0, fault)
           ELSE IF AlreadyCancelled(existingBooking)
           THEN RespondAtOnce(q, 400, "Booking is already cancelled", 0, fault)
           ELSE IF BookingDateTime(existingBooking) < NowMinutes
           THEN RespondAtOnce(q, 400, "Cannot cancel past bookings", 0, fault)
           ELSE Enter(q)
        /\ UNCHANGED <<ledger, now, complaints>>

\* an update that puts the booking back to pending
CancelUpdateDataReopen(row) == [ row EXCEPT !.status = "pending" ]

\* an update that also clears the approver
CancelUpdateDataClearApprover(row) ==
    [ row EXCEPT !.status = "cancelled", !.approved_by = Null ]

\* { status: 'cancelled' } applied to a row
CancelUpdateData(row) == [ row EXCEPT !.status = "cancelled" ]

\* .update({ status: 'cancelled' }).eq('id', id) runs in the store and
\* returns through .single()
CancelBookingUpdate(q, fault) ==
    LET rows == { i \in DOMAIN ledger : i = q.id }
        found == IF fault THEN StoreFault ELSE Single(rows)
    IN  /\ q.op = "cancel" /\ q.pc = "cancel"
        /\ IF fault \/ rows = {}
           THEN UNCHANGED ledger
           ELSE ledger' = [ ledger EXCEPT ![q.id] = CancelUpdateData(@) ]
        /\ IF found.error
           THEN Respond(q, 500, "Failed to cancel booking", 0, fault)
           ELSE Respond(q, 200, "none", found.data[1], fault)
        /\ UNCHANGED <<now, complaints>>

----------------------------------------------------------------------------
(* GET /facilities/:id/bookings: authenticateToken, getFacilityBookings    *)

\* a listing that shows a non-administrator every booking
VisibleToAll(actor, row) == TRUE

\* the filter added when req.user?.role !== 'admin':
\* .or(`status.eq.approved,user_id.eq.${req.user?.id}`)
VisibleTo(actor, row) ==
    IsAdmin(actor) \/ row.status = "approved" \/ row.user_id = actor

\* the rows the query selects: .eq('facility_id', facilityId), the
\* visibility filter, and .eq('status', status), .eq('booking_date', date)
\* when the query string carries them; q.status is "none" when it does not
FacilityBookingsQuery(q) ==
    { i \in DOMAIN ledger :
        /\ ledger[i].facility_id = q.facility_id
        /\ VisibleTo(q.actor, ledger[i])
        /\ q.status # "none" => ledger[i].status = q.status
        /\ q.date # Null => ledger[i].booking_date = q.date[1] }

\* .order('booking_date').order('start_time'), both ascending: the rows in
\* an order the store may return them in (rows with equal keys in any order)
OrderedResults(rows) ==
    { items \in [ 1..Cardinality(rows) -> rows ] :
        /\ \A m, n \in DOMAIN items : m # n => items[m] # items[n]
        /\ \A m, n \in DOMAIN items :
              m < n =>
                \/ ledger[items[m]].booking_date < ledger[items[n]].booking_date
                \/ /\ ledger[items[m]].booking_date
                        = ledger[items[n]].booking_date
                   /\ ledger[items[m]].start_time
                        <= ledger[items[n]].start_time }

\* .range(offset, offset + limit - 1) on the ordered rows
Range(items, offset, limit) ==
    [ k \in 1..( IF Len(items) <= offset THEN 0
                 ELSE IF Len(items) - offset < limit THEN Len(items) - offset
                 ELSE limit ) |-> items[offset + k] ]

\* a division that rounds down
Floor(a, b) == a \div b

\* Math.ceil(a / b) for a count a and a positive limit b
Ceil(a, b) == (a + b - 1) \div b

\* getFacilityBookings: one query, answered with the page and the count of
\* all selected rows.  A range that starts beyond the last selected row is
\* answered by the store with an empty page or with an error (outOfRange).
GetFacilityBookings(actor, facilityId, status, date, page, limit, fault, outOfRange) ==
    LET q == [ BlankRequest EXCEPT
                 !.op = "list", !.actor = actor, !.facility_id = facilityId,
                 !.status = status, !.date = date,
                 !.page = page, !.limit = limit ]
        offset == (page - 1) * limit
        rows == FacilityBookingsQuery(q)
        beyond == offset > 0 /\ offset >= Cardinality(rows)
    IN  /\ inflight = EmptyBag
        /\ IF fault \/ (beyond /\ outOfRange)
           THEN resp' = [ NoResp EXCEPT
                            !.req = q, !.code = 500, !.fault = fault,
                            !.error = "Failed to fetch facility bookings" ]
           ELSE \E items \in OrderedResults(rows) :
                   resp' = [ NoResp EXCEPT
                               !.req = q, !.code = 200,
                               !.items = Range(items, offset, limit),
                               !.total = Cardinality(rows),
                               !.totalPages = Ceil(Cardinality(rows), limit) ]
        /\ UNCHANGED <<ledger, inflight, now, complaints>>

----------------------------------------------------------------------------
(* GET /facilities/bookings/my: authenticateToken, getUserBookings         *)

\* the rows the query selects: .eq('user_id', req.user?.id), and
\* .eq('status', status) when the query string carries it
UserBookingsQuery(q) ==
    { i \in DOMAIN ledger :
        /\ ledger[i].user_id = q.actor
        /\ q.status # "none" => ledger[i].status = q.status }

\* .order('booking_date', { ascending: false })
\* .order('start_time', { ascending: false })
OrderedResultsDescending(rows) ==
    { items \in [ 1..Cardinality(rows) -> rows ] :
        /\ \A m, n \in DOMAIN items : m # n => items[m] # items[n]
        /\ \A m, n \in DOMAIN items :
              m < n =>
                \/ ledger[items[m]].booking_date > ledger[items[n]].booking_date
                \/ /\ ledger[items[m]].booking_date
                        = ledger[items[n]].booking_date
                   /\ ledger[items[m]].start_time
                        >= ledger[items[n]].start_time }

\* getUserBookings: one query, answered with the page and the count of all
\* selected rows; outOfRange as in getFacilityBookings
GetUserBookings(actor, status, page, limit, fault, outOfRange) ==
    LET q == [ BlankRequest EXCEPT
                 !.op = "mine", !.actor = actor, !.status = status,
                 !.page = page, !.limit = limit ]
        offset == (page - 1) * limit
        rows == UserBookingsQuery(q)
        beyond == offset > 0 /\ offset >= Cardinality(rows)
    IN  /\ inflight = EmptyBag
        /\ IF fault \/ (beyond /\ outOfRange)
           THEN resp' = [ NoResp EXCEPT
                            !.req = q, !.code = 500, !.fault = fault,
                            !.error = "Failed to fetch user bookings" ]
           ELSE \E items \in OrderedResultsDescending(rows) :
                   resp' = [ NoResp EXCEPT
                               !.req = q, !.code = 200,
                               !.items = Range(items, offset, limit),
                               !.total = Cardinality(rows),
                               !.totalPages = Ceil(Cardinality(rows), limit) ]
        /\ UNCHANGED <<ledger, inflight, now, complaints>>

----------------------------------------------------------------------------
(* The clock *)

Tick ==
    /\ now < MaxNow
    /\ now' = now + 1
    /\ resp' = NoResp
    /\ UNCHANGED <<ledger, inflight, complaints>>

----------------------------------------------------------------------------
(* Inputs *)

T0900 == <<"0", "9", ":", "0", "0">>
T900  == <<"9", ":", "0", "0">>
T1000 == <<"1", "0", ":", "0", "0">>
T1100 == <<"1", "1", ":", "0", "0">>
T1200 == <<"1", "2", ":", "0", "0">>
T1300 == <<"1", "3", ":", "0", "0">>
T2400 == <<"2", "4", ":", "0", "0">>

\* a booking id of the ledger, or the first id that is not in it
BookingIds == 1..(Len(ledger) + 1)

----------------------------------------------------------------------------
(* Complaints.  A row of the complaints table keeps its owner, priority,   *)
(* status, admin_notes and resolved_at; its id is its place in the table.  *)
(* A text is a string; the empty string is a text Joi.string() refuses.    *)

ComplaintPriorities == {"low", "medium", "high", "urgent"}

ComplaintStatuses == {"open", "in_progress", "resolved", "closed"}

\* priority: Joi.string().valid(...).default('medium')
createComplaintSchema(priority) ==
    priority = Null \/ priority[1] \in ComplaintPriorities

\* the row .insert({ user_id, ..., priority, ... }) stores: status takes the
\* column's default, admin_notes and resolved_at are not set
NewComplaint(actor, priority) ==
    [ user_id |-> actor,
      priority |-> IF priority = Null THEN "medium" ELSE priority[1],
      status |-> "open", admin_notes |-> Null, resolved_at |-> Null ]

\* POST /complaints: authenticateToken, validateRequest(createComplaintSchema),
\* createComplaint, whose one store call is the insert
CreateComplaint(actor, priority, fault) ==
    LET q == [ BlankRequest EXCEPT
                 !.op = "createComplaint", !.actor = actor,
                 !.updates = [ @ EXCEPT !.priority = priority ] ]
    IN  /\ Len(complaints) < MaxComplaints
        /\ IF ~createComplaintSchema(priority)
           THEN /\ RespondAtOnce(q, 400, "Validation error", 0, FALSE)
                /\ UNCHANGED complaints
           ELSE IF fault
           THEN /\ RespondAtOnce(q, 500, "Failed to create complaint", 0, TRUE)
                /\ UNCHANGED complaints
           ELSE /\ complaints' = Append(complaints, NewComplaint(actor, priority))
                /\ RespondAtOnce(q, 201, "none", Len(complaints) + 1, FALSE)
        /\ UNCHANGED <<ledger, now>>

\* priority: one of the four, optional; admin_notes: Joi.string().max(1000),
\* optional, for every caller
updateComplaintSchema(updates) ==
    /\ updates.priority = Null \/ updates.priority[1] \in ComplaintPriorities
    /\ updates.admin_notes = Null \/ updates.admin_notes[1] # ""

\* req.user.role !== 'admin' && existingComplaint.user_id !== req.user.id
ComplaintAccessDenied(actor, existingComplaint) ==
    ~IsAdmin(actor) /\ existingComplaint.user_id # actor

\* PUT /complaints/:id: authenticateToken,
\* validateRequest(updateComplaintSchema), updateComplaint, which reads the
\* complaint's owner and checks permission; the update is its next store call
UpdateComplaintRequest(limit, actor, id, updates, fault) ==
    LET q == [ BlankRequest EXCEPT
                 !.op = "updateComplaint", !.pc = "update", !.actor = actor,
                 !.id = id, !.updates = updates ]
        found == IF fault THEN StoreFault
                 ELSE Single({ i \in DOMAIN complaints : i = id })
        existingComplaint == complaints[found.data[1]]
    IN  /\ BagCardinality(inflight) < limit
        /\ IF ~updateComplaintSchema(updates)
           THEN RespondAtOnce(q, 400, "Validation error", 0, FALSE)
           ELSE IF found.error \/ found.data = Null
           THEN RespondAtOnce(q, 404, "Complaint not found", 0, fault)
           ELSE IF ComplaintAccessDenied(actor, existingComplaint)
           THEN RespondAtOnce(q, 403, "Access denied", 0, fault)
           ELSE Enter(q)
        /\ UNCHANGED <<ledger, now, complaints>>

\* .update(updates) applied to a row: every field the body carries is written
ApplyComplaintUpdates(row, updates) ==
    [ row EXCEPT
        !.priority = IF updates.priority = Null THEN @ ELSE updates.priority[1],
        !.admin_notes = IF updates.admin_notes = Null THEN @
                        ELSE updates.admin_notes ]

\* .update(updates).eq('id', id) runs in the store and returns through
\* .single()
UpdateComplaintUpdate(q, fault) ==
    LET rows == { i \in DOMAIN complaints : i = q.id }
        found == IF fault THEN StoreFault ELSE Single(rows)
    IN  /\ q.op = "updateComplaint" /\ q.pc = "update"
        /\ IF fault \/ rows = {}
           THEN UNCHANGED complaints
           ELSE complaints' = [ complaints EXCEPT
                                  ![q.id] = ApplyComplaintUpdates(@, q.updates) ]
        /\ IF found.error
           THEN Respond(q, 500, "Failed to update complaint", 0, fault)
           ELSE Respond(q, 200, "none", found.data[1], fault)
        /\ UNCHANGED <<ledger, now>>

updateComplaintStatusSchema(q) ==
    /\ q.status \in ComplaintStatuses
    /\ q.admin_notes = Null \/ q.admin_notes[1] # ""

\* PUT /complaints/:id/status: authenticateToken, requireAdmin,
\* validateRequest(updateComplaintStatusSchema), updateComplaintStatus, which
\* checks the role again and builds updateData; resolved_at is the time of
\* this step
UpdateComplaintStatusRequest(limit, actor, id, status, admin_notes) ==
    LET q == [ BlankRequest EXCEPT
                 !.op = "updateComplaintStatus", !.pc = "update",
                 !.actor = actor, !.id = id, !.status = status,
                 !.admin_notes = admin_notes,
                 !.approved_at = IF status = "resolved" THEN Some(now)
                                 ELSE Null ]
    IN  /\ BagCardinality(inflight) < limit
        /\ IF ~requireAdmin(actor)
           THEN RespondAtOnce(q, 403, "Admin access required", 0, FALSE)
           ELSE IF ~updateComplaintStatusSchema(q)
           THEN RespondAtOnce(q, 400, "Validation error", 0, FALSE)
           ELSE IF ~IsAdmin(actor)
           THEN RespondAtOnce(q, 403, "Admin access required", 0, FALSE)
           ELSE Enter(q)
        /\ UNCHANGED <<ledger, now, complaints>>

\* updateData = { status }, with admin_notes if (admin_notes) and resolved_at
\* if the status is 'resolved', applied to a row
ApplyStatusUpdateData(row, q) ==
    [ row EXCEPT
        !.status = q.status,
        !.admin_notes = IF q.admin_notes = Null THEN @ ELSE q.admin_notes,
        !.resolved_at = IF q.status = "resolved" THEN q.approved_at ELSE @ ]

\* .update(updateData).eq('id', id) runs in the store and returns through
\* .single()
UpdateComplaintStatusUpdate(q, fault) ==
    LET rows == { i \in DOMAIN complaints : i = q.id }
        found == IF fault THEN StoreFault ELSE Single(rows)
    IN  /\ q.op = "updateComplaintStatus" /\ q.pc = "update"
        /\ IF fault \/ rows = {}
           THEN UNCHANGED complaints
           ELSE complaints' = [ complaints EXCEPT
                                  ![q.id] = ApplyStatusUpdateData(@, q) ]
        /\ IF found.error
           THEN Respond(q, 500, "Failed to update complaint status", 0, fault)
           ELSE Respond(q, 200, "none", found.data[1], fault)
        /\ UNCHANGED <<ledger, now>>

\* a complaint id of the table, or the first id that is not in it
ComplaintIds == 1..(Len(complaints) + 1)

----------------------------------------------------------------------------
(* Specifications *)

Init ==
    /\ ledger = <<>>
    /\ inflight = EmptyBag
    /\ resp = NoResp
    /\ now = 0
    /\ complaints = <<>>

\* Concurrent requests of every kind, on one date and one time range
Next ==
    \/ \E actor \in {"alice", "admin"}, f \in {"bbq", "tennis"},
          fault \in BOOLEAN :
          CreateBookingRequest(MaxInFlight, actor, f, 1, T1100, T1200, fault)
    \/ \E q \in InFlight, fault \in BOOLEAN : CreateBookingConflicts(q, fault)
    \/ \E q \in InFlight, fault \in BOOLEAN : CreateBookingInsert(q, fault)
    \/ \E actor \in {"alice", "admin"}, id \in BookingIds,
          status \in {"approved", "rejected"} :
          ApproveBookingRequest(MaxInFlight, actor, id, status, Null)
    \/ \E q \in InFlight, fault \in BOOLEAN : ApproveBookingUpdate(q, fault)
    \/ \E actor \in {"alice", "admin"}, id \in BookingIds, fault \in BOOLEAN :
          CancelBookingRequest(MaxInFlight, actor, id, fault)
    \/ \E q \in InFlight, fault \in BOOLEAN : CancelBookingUpdate(q, fault)

Spec == Init /\ [][Next]_vars

\* One request at a time, of every kind, on one date and one time range
NextSeq ==
    \/ \E actor \in {"alice", "admin"}, f \in FacilityIds, fault \in BOOLEAN :
          CreateBookingRequest(1, actor, f, 1, T1100, T1200, fault)
    \/ \E q \in InFlight, fault \in BOOLEAN : CreateBookingConflicts(q, fault)
    \/ \E q \in InFlight, fault \in BOOLEAN : CreateBookingInsert(q, fault)
    \/ \E actor \in {"alice", "admin"}, id \in BookingIds,
          status \in {"approved", "rejected"} :
          ApproveBookingRequest(1, actor, id, status, Null)
    \/ \E q \in InFlight, fault \in BOOLEAN : ApproveBookingUpdate(q, fault)
    \/ \E actor \in {"alice", "admin"}, id \in BookingIds, fault \in BOOLEAN :
          CancelBookingRequest(1, actor, id, fault)
    \/ \E q \in InFlight, fault \in BOOLEAN : CancelBookingUpdate(q, fault)

SpecSeq == Init /\ [][NextSeq]_vars

\* One request at a time: alice books on two dates, cancels, and the
\* administrator decides
NextDates ==
    \/ \E f \in {"bbq", "tennis"}, d \in {1, 2}, fault \in BOOLEAN :
          CreateBookingRequest(1, "alice", f, d, T1100, T1200, fault)
    \/ \E q \in InFlight, fault \in BOOLEAN : CreateBookingConflicts(q, fault)
    \/ \E q \in InFlight, fault \in BOOLEAN : CreateBookingInsert(q, fault)
    \/ \E id \in BookingIds, status \in {"approved", "rejected"} :
          ApproveBookingRequest(1, "admin", id, status, Null)
    \/ \E q \in InFlight, fault \in BOOLEAN : ApproveBookingUpdate(q, fault)
    \/ \E id \in BookingIds, fault \in BOOLEAN :
          CancelBookingRequest(1, "alice", id, fault)
    \/ \E q \in InFlight, fault \in BOOLEAN : CancelBookingUpdate(q, fault)

SpecDates == Init /\ [][NextDates]_vars

\* One booking request at a time, over time ranges in several spellings
TimeRanges ==
    { <<T1100, T1200>>, <<T1000, T1100>>, <<T1000, T1200>>,
      <<T900, T1100>>, <<T0900, T1100>>, <<T0900, T1000>>, <<T0900, T1200>>,
      <<T1200, T1100>>, <<T1100, T1100>>, <<T2400, T1100>> }

NextHours ==
    \/ \E f \in FacilityIds, t \in TimeRanges, fault \in BOOLEAN :
          CreateBookingRequest(1, "alice", f, 1, t[1], t[2], fault)
    \/ \E q \in InFlight, fault \in BOOLEAN : CreateBookingConflicts(q, fault)
    \/ \E q \in InFlight, fault \in BOOLEAN : CreateBookingInsert(q, fault)

SpecHours == Init /\ [][NextHours]_vars

\* Concurrent decisions on stored bookings: alice books the barbecue area,
\* two administrators decide, one with notes, while alice cancels
AdminDecisions ==
    { <<"admin", "approved", Some("ok")>>, <<"carol", "rejected", Null>> }

NextApprove ==
    \/ CreateBookingRequest(1, "alice", "bbq", 1, T1100, T1200, FALSE)
    \/ \E q \in InFlight : CreateBookingConflicts(q, FALSE)
    \/ \E q \in InFlight : CreateBookingInsert(q, FALSE)
    \/ \E id \in DOMAIN ledger, a \in AdminDecisions :
          ApproveBookingRequest(MaxInFlight, a[1], id, a[2], a[3])
    \/ \E q \in InFlight, fault \in BOOLEAN : ApproveBookingUpdate(q, fault)
    \/ \E id \in DOMAIN ledger :
          CancelBookingRequest(MaxInFlight, "alice", id, FALSE)
    \/ \E q \in InFlight : CancelBookingUpdate(q, FALSE)

SpecApprove == Init /\ [][NextApprove]_vars

\* One request at a time while the clock advances: alice books the
\* barbecue area for noon of day 1, the administrator approves, and alice,
\* bob and the administrator cancel
NextCancel ==
    \/ CreateBookingRequest(1, "alice", "bbq", 1, T1200, T1300, FALSE)
    \/ \E q \in InFlight : CreateBookingConflicts(q, FALSE)
    \/ \E q \in InFlight : CreateBookingInsert(q, FALSE)
    \/ \E id \in DOMAIN ledger :
          ApproveBookingRequest(1, "admin", id, "approved", Null)
    \/ \E q \in InFlight : ApproveBookingUpdate(q, FALSE)
    \/ \E actor \in {"alice", "bob", "admin"}, id \in BookingIds :
          CancelBookingRequest(1, actor, id, FALSE)
    \/ \E q \in InFlight, fault \in BOOLEAN : CancelBookingUpdate(q, fault)
    \/ Tick

SpecCancel == Init /\ [][NextCancel]_vars

\* One request at a time: alice and bob book, the administrator decides,
\* alice cancels, and all three list the bookings of the barbecue area
NewBookings ==
    { <<"alice", "bbq", 1>>, <<"bob", "bbq", 2>>, <<"bob", "tennis", 1>> }

\* status and date of the query string: neither, one of them, both
ListFilters ==
    { <<"none", Null>>, <<"pending", Null>>, <<"none", Some(1)>>,
      <<"approved", Some(2)>> }

\* page, limit, and what the store does with a range beyond the last row
Pages ==
    { <<1, 10, FALSE>>, <<1, 1, FALSE>>, <<2, 1, FALSE>>, <<2, 1, TRUE>> }

NextList ==
    \/ \E b \in NewBookings :
          CreateBookingRequest(1, b[1], b[2], b[3], T1100, T1200, FALSE)
    \/ \E q \in InFlight : CreateBookingConflicts(q, FALSE)
    \/ \E q \in InFlight : CreateBookingInsert(q, FALSE)
    \/ \E id \in DOMAIN ledger, status \in {"approved", "rejected"} :
          ApproveBookingRequest(1, "admin", id, status, Null)
    \/ \E q \in InFlight : ApproveBookingUpdate(q, FALSE)
    \/ \E id \in DOMAIN ledger : CancelBookingRequest(1, "alice", id, FALSE)
    \/ \E q \in InFlight : CancelBookingUpdate(q, FALSE)
    \/ \E actor \in {"alice", "bob", "admin"}, f \in ListFilters,
          p \in Pages :
          GetFacilityBookings(actor, "bbq", f[1], f[2], p[1], p[2], FALSE,
                              p[3])

SpecList == Init /\ [][NextList]_vars

\* One request at a time: alice books the tennis court on two dates and
\* cancels, and the bookings are listed page by page

\* page, limit, and what the store does with a range beyond the last row
PageRequests ==
    { <<1, 1, FALSE>>, <<2, 1, FALSE>>, <<3, 1, FALSE>>, <<3, 1, TRUE>>,
      <<1, 2, FALSE>>, <<2, 2, FALSE>>, <<1, 10, FALSE>> }

NextPages ==
    \/ \E d \in {1, 2}, t \in { <<T1100, T1200>>, <<T1200, T1300>> } :
          CreateBookingRequest(1, "alice", "tennis", d, t[1], t[2], FALSE)
    \/ \E q \in InFlight : CreateBookingConflicts(q, FALSE)
    \/ \E q \in InFlight : CreateBookingInsert(q, FALSE)
    \/ \E id \in DOMAIN ledger : CancelBookingRequest(1, "alice", id, FALSE)
    \/ \E q \in InFlight : CancelBookingUpdate(q, FALSE)
    \/ \E status \in {"none", "approved"}, p \in PageRequests :
          GetFacilityBookings("admin", "tennis", status, Null, p[1], p[2],
                              FALSE, p[3])
    \/ \E status \in {"none", "approved"}, p \in PageRequests :
          GetUserBookings("alice", status, p[1], p[2], FALSE, p[3])

SpecPages == Init /\ [][NextPages]_vars

\* One booking request at a time, for yesterday, today and later dates,
\* while the clock advances through the days
NextToday ==
    \/ \E f \in {"bbq", "tennis"}, d \in {0, 1, 2} :
          CreateBookingRequest(1, "alice", f, d, T1100, T1200, FALSE)
    \/ \E q \in InFlight : CreateBookingConflicts(q, FALSE)
    \/ \E q \in InFlight : CreateBookingInsert(q, FALSE)
    \/ Tick

SpecToday == Init /\ [][NextToday]_vars

\* Concurrent cancellations: alice books, and alice and the administrator
\* cancel while other cancellations are in flight
NextCancels ==
    \/ \E f \in {"bbq", "tennis"} :
          CreateBookingRequest(1, "alice", f, 1, T1100, T1200, FALSE)
    \/ \E q \in InFlight : CreateBookingConflicts(q, FALSE)
    \/ \E q \in InFlight : CreateBookingInsert(q, FALSE)
    \/ \E actor \in {"alice", "admin"}, id \in DOMAIN ledger :
          CancelBookingRequest(MaxInFlight, actor, id, FALSE)
    \/ \E q \in InFlight, fault \in BOOLEAN : CancelBookingUpdate(q, fault)

SpecCancels == Init /\ [][NextCancels]_vars

\* the bodies of PUT /complaints/:id the residents and the administrator send
ComplaintUpdates ==
    { [ priority |-> Some("high"), admin_notes |-> Null ],
      [ priority |-> Null, admin_notes |-> Some("note") ],
      [ priority |-> Null, admin_notes |-> Some("") ] }

\* Complaints: alice and bob file complaints, everyone sends updates, one
\* request at a time, and status changes arrive from a resident and from
\* the administrator
NextComplaints ==
    \/ \E actor \in {"alice", "bob"}, priority \in {Null, Some("none")} :
          CreateComplaint(actor, priority, FALSE)
    \/ \E actor \in {"alice", "bob", "admin"}, id \in ComplaintIds,
          updates \in ComplaintUpdates :
          UpdateComplaintRequest(1, actor, id, updates, FALSE)
    \/ \E q \in InFlight, fault \in BOOLEAN : UpdateComplaintUpdate(q, fault)
    \/ \E actor \in {"alice", "admin"}, id \in DOMAIN complaints,
          admin_notes \in {Null, Some("seen")} :
          UpdateComplaintStatusRequest(1, actor, id, "resolved", admin_notes)
    \/ \E q \in InFlight : UpdateComplaintStatusUpdate(q, FALSE)

SpecComplaints == Init /\ [][NextComplaints]_vars

----------------------------------------------------------------------------
(* Words of the claims *)

\* the half-open intervals [s1, e1) and [s2, e2) share a moment
Overlap(s1, e1, s2, e2) == s1 < e2 /\ s2 < e1

Proper(s, e) == s < e

SameSlot(a, b) ==
    /\ a.facility_id = b.facility_id
    /\ a.booking_date = b.booking_date

Active(row) == row.status \in ActiveStatuses

----------------------------------------------------------------------------
(* C1: in every reachable state, also after concurrent createBooking       *)
(* requests, no two pending or approved bookings of one facility and date  *)
(* have overlapping intervals [start_time, end_time).  Two requests that   *)
(* both read the ledger before either inserts break it.                    *)
C1_NoDoubleBooking ==
    \A i \in DOMAIN ledger, j \in DOMAIN ledger :
        ( /\ i < j
          /\ SameSlot(ledger[i], ledger[j])
          /\ Active(ledger[i]) /\ Active(ledger[j])
          /\ Proper(ledger[i].start_time, ledger[i].end_time)
          /\ Proper(ledger[j].start_time, ledger[j].end_time) )
        => ~Overlap(ledger[i].start_time, ledger[i].end_time,
                    ledger[j].start_time, ledger[j].end_time)

----------------------------------------------------------------------------
(* Words of the responses *)

IsActiveFacility(f) == f \in DOMAIN Facilities /\ Facilities[f].is_active

\* the proposed times of a booking request, as times of day
ProposedStart(q) == ParseTime(q.start_time)
ProposedEnd(q) == ParseTime(q.end_time)

\* the rows of the ledger other than the one the last response reports
OtherRows == DOMAIN ledger \ {resp.row}

\* the ledger holds, beside the row the request inserted, a pending or
\* approved booking of the request's facility and date that overlaps it
OverlapsStored(q) ==
    \E i \in OtherRows :
        /\ SameSlot(ledger[i], q)
        /\ Active(ledger[i])
        /\ Overlap(ledger[i].start_time, ledger[i].end_time,
                   ProposedStart(q), ProposedEnd(q))

\* the request passes the schema, the facility lookup and the
\* operating-hours check as createBooking evaluates them
PassesEarlierChecks(q) ==
    /\ createBookingSchema(q)
    /\ IsActiveFacility(q.facility_id)
    /\ ~OutsideOperatingHours(q.start_time, q.end_time,
                              FacilityJson(q.facility_id))

\* the times of day s to e lie within the operating hours of facility f
WithinHours(f, s, e) ==
    /\ s >= Facilities[f].operating_hours_start
    /\ e <= Facilities[f].operating_hours_end

\* the operating-hours check of createBooking answers for the request as
\* the times of day do
HoursDecidedByTime(q) ==
    /\ IsActiveFacility(q.facility_id)
    /\ OutsideOperatingHours(q.start_time, q.end_time,
                             FacilityJson(q.facility_id))
       <=> ~WithinHours(q.facility_id, ProposedStart(q), ProposedEnd(q))

\* the last step answered a createBooking whose store calls all worked
CreateAnswered == resp.req.op = "create" /\ ~resp.fault

----------------------------------------------------------------------------
(* C2, as claimed: a createBooking running alone, proposing an interval    *)
(* that overlaps a stored pending or approved booking of the same facility *)
(* and date, is answered 409 and inserts no row.  It is stated here for    *)
(* the requests and stored bookings on which the operating-hours check     *)
(* answers as the times of day do, so that the spelling of the times plays *)
(* no part: a request that starts before the facility opens and overlaps   *)
(* a stored booking is answered 400.                                       *)
C2_OverlapAnswered409 ==
    ( /\ CreateAnswered
      /\ OverlapsStored(resp.req)
      /\ HoursDecidedByTime(resp.req)
      /\ \A i \in DOMAIN ledger :
            WithinHours(ledger[i].facility_id,
                        ledger[i].start_time, ledger[i].end_time) )
    => (resp.code = 409 /\ resp.row = 0)

(* C2, amended: such a request inserts no row, and it is answered 409      *)
(* when it passes the checks that come first (schema, facility lookup,     *)
(* operating hours); when one of those rejects it, their 400 or 404 is     *)
(* the answer.                                                             *)
C2_OverlapRejected ==
    (CreateAnswered /\ OverlapsStored(resp.req))
    => /\ resp.row = 0
       /\ IF PassesEarlierChecks(resp.req)
          THEN resp.code = 409
          ELSE resp.code \in {400, 404}

C2_Witness ==
    /\ CreateAnswered
    /\ OverlapsStored(resp.req)
    /\ resp.code = 409

----------------------------------------------------------------------------
(* C3: for a stored interval and a proposed interval, both with start      *)
(* before end, the conflict filter of createBooking matches exactly when   *)
(* s1 < e2 and s2 < e1: a request that reaches the conflicts query is      *)
(* answered 409 exactly when such a stored booking exists, and a booking   *)
(* that touches a stored one at an endpoint is created.                    *)
C3_ConflictIffOverlap ==
    /\ \A q \in InFlight, i \in DOMAIN ledger :
          ( /\ q.op = "create" /\ q.pc = "conflicts"
            /\ Proper(ledger[i].start_time, ledger[i].end_time)
            /\ Proper(ProposedStart(q), ProposedEnd(q)) )
          => ( ConflictFilter(ledger[i].start_time, ledger[i].end_time,
                              ProposedStart(q), ProposedEnd(q))
               <=> Overlap(ledger[i].start_time, ledger[i].end_time,
                           ProposedStart(q), ProposedEnd(q)) )
    /\ ( /\ CreateAnswered
         /\ resp.code \in {201, 409}
         /\ Proper(ProposedStart(resp.req), ProposedEnd(resp.req))
         /\ \A i \in OtherRows :
               Proper(ledger[i].start_time, ledger[i].end_time) )
       => (resp.code = 409 <=> OverlapsStored(resp.req))

C3_Witness ==
    /\ CreateAnswered
    /\ resp.code = 201
    /\ Proper(ProposedStart(resp.req), ProposedEnd(resp.req))
    /\ \E i \in OtherRows :
          /\ SameSlot(ledger[i], resp.req)
          /\ Active(ledger[i])
          /\ Proper(ledger[i].start_time, ledger[i].end_time)
          /\ ledger[i].end_time = ProposedStart(resp.req)

----------------------------------------------------------------------------
(* C4: createBooking with start >= end is refused and inserts nothing, so  *)
(* every stored booking has start_time < end_time.  createBooking compares *)
(* the times with the operating hours only, never with each other.         *)
C4_StartBeforeEnd ==
    \A i \in DOMAIN ledger : ledger[i].start_time < ledger[i].end_time

----------------------------------------------------------------------------
(* C5: only pending or approved bookings of the same facility and date     *)
(* count as conflicts.  A createBooking that reaches the conflicts query   *)
(* is answered 409 only if such a booking is stored, and when every stored *)
(* booking of its facility and date is cancelled or rejected (or there is  *)
(* none, whatever other facilities and dates hold) the booking is created. *)
C5_ConflictsAreActiveSameSlot ==
    (CreateAnswered /\ PassesEarlierChecks(resp.req))
    => /\ resp.code = 409
          => \E i \in OtherRows :
                SameSlot(ledger[i], resp.req) /\ Active(ledger[i])
       /\ ( \A i \in OtherRows :
               SameSlot(ledger[i], resp.req)
               => ledger[i].status \in {"cancelled", "rejected"} )
          => /\ resp.code = 201
             /\ resp.row \in DOMAIN ledger
             /\ SameSlot(ledger[resp.row], resp.req)

C5_Witness ==
    /\ CreateAnswered
    /\ resp.code = 201
    /\ \E i \in OtherRows :
          /\ SameSlot(ledger[i], resp.req)
          /\ ledger[i].status \in {"cancelled", "rejected"}
          /\ ledger[i].start_time = ProposedStart(resp.req)
          /\ ledger[i].end_time = ProposedEnd(resp.req)

----------------------------------------------------------------------------
(* C6: a createBooking on an active facility that starts before the        *)
(* opening time or ends after the closing time is refused and inserts no   *)
(* row, so every stored booking lies within its facility's operating       *)
(* hours.  The check compares the request's strings with the printed       *)
(* HH:MM:SS hours, and '9:00' is not below '10:00:00'.                      *)
C6_BookingsWithinHours ==
    \A i \in DOMAIN ledger :
        WithinHours(ledger[i].facility_id,
                    ledger[i].start_time, ledger[i].end_time)

----------------------------------------------------------------------------
(* C7: the operating-hours bounds are inclusive: a createBooking with      *)
(* start < end, start at or after the opening time and end at or before    *)
(* the closing time is never refused by the operating-hours check.  A      *)
(* start of '10:00' is a proper prefix of the printed opening time         *)
(* '10:00:00', so it compares below it.                                    *)
C7_HoursInclusive ==
    ( /\ resp.req.op = "create"
      /\ resp.error = "Facility is only available between" )
    => ~( /\ Proper(ProposedStart(resp.req), ProposedEnd(resp.req))
          /\ WithinHours(resp.req.facility_id,
                         ProposedStart(resp.req), ProposedEnd(resp.req)) )

----------------------------------------------------------------------------
(* C8: a successful createBooking stores the booking pending, with no      *)
(* approver and no approval time, when the facility requires approval, and *)
(* approved, with the creator as approver and the approval time set, when  *)
(* it does not.                                                            *)
C8_InitialStatus ==
    (resp.req.op = "create" /\ resp.code = 201)
    => LET row == ledger[resp.row]
       IN  /\ resp.row = Len(ledger)
           /\ row.user_id = resp.req.actor
           /\ IF Facilities[row.facility_id].requires_approval
              THEN /\ row.status = "pending"
                   /\ row.approved_by = Null
                   /\ row.approved_at = Null
              ELSE /\ row.status = "approved"
                   /\ row.approved_by = Some(resp.req.actor)
                   /\ row.approved_at = Some(now)

C8_Witness ==
    /\ resp.req.op = "create" /\ resp.code = 201
    /\ ledger[resp.row].status = "approved"
    /\ ledger[resp.row].approved_by = Some("alice")
    /\ \E i \in OtherRows :
          ledger[i].status = "pending" /\ ledger[i].approved_by = Null

----------------------------------------------------------------------------
(* C9: a createBooking for a facility_id that matches no facility, or a    *)
(* facility that is not active, is answered 404 and inserts no booking,    *)
(* whatever times it asks for: no stored booking is on such a facility.    *)
C9_NoFacilityNotFound ==
    /\ ( /\ resp.req.op = "create"
         /\ createBookingSchema(resp.req)
         /\ ~IsActiveFacility(resp.req.facility_id) )
       => (resp.code = 404 /\ resp.row = 0)
    /\ \A i \in DOMAIN ledger : IsActiveFacility(ledger[i].facility_id)

C9_Witness ==
    /\ resp.req.op = "create"
    /\ resp.req.facility_id = "gym"
    /\ resp.code = 404
    /\ ~resp.fault
    /\ ledger # <<>>

----------------------------------------------------------------------------
\* the role of the users table, read for the claims
IsAdministrator(u) == Users[u].role = "admin"

\* the answer to an approval request of an actor who is no administrator
C10_Refused ==
    (resp.req.op = "approve" /\ ~IsAdministrator(resp.req.actor))
    => (resp.code = 403 /\ resp.row = 0)

\* a step: such a request leaves the ledger as it was, and a status turns
\* approved or rejected only in the step of an administrator's request
C10_Step ==
    /\ (resp'.req.op = "approve" /\ ~IsAdministrator(resp'.req.actor))
       => ledger' = ledger
    /\ \A i \in DOMAIN ledger :
          ( /\ ledger'[i].status \in {"approved", "rejected"}
            /\ ledger'[i].status # ledger[i].status )
          => /\ resp'.req \in InFlight
             /\ resp'.req.op = "approve"
             /\ resp'.req.id = i
             /\ IsAdministrator(resp'.req.actor)

(* C10: approveOrReject by an actor who is not an administrator is         *)
(* answered 403 and changes no booking, whether or not the booking exists  *)
(* and whatever its status; a stored booking's status becomes approved or  *)
(* rejected only in a step of an approval request of an administrator.     *)
C10_OnlyAdministratorsDecide == []C10_Refused /\ [][C10_Step]_vars

C10_Witness ==
    /\ resp.req.op = "approve"
    /\ resp.req.actor = "alice"
    /\ resp.code = 403
    /\ resp.req.id \in DOMAIN ledger
    /\ ledger[resp.req.id].status = "pending"

----------------------------------------------------------------------------
\* the last step answered the request of an administrator to decide
\* booking i, and no store call failed
DecisionAnswered(r) ==
    /\ r.req.op = "approve"
    /\ IsAdministrator(r.req.actor)
    /\ ~r.fault

\* booking id is not in the ledger, or its status is not pending
NotPending(id) ==
    id \notin DOMAIN ledger \/ ledger[id].status # "pending"

(* C11: approveOrReject by an administrator on a booking that does not     *)
(* exist or is not pending is answered 404 and leaves every booking as it  *)
(* was.  The update matches no row and its result is read through          *)
(* .single(), which reports an error for an empty result: the answer is    *)
(* 500.                                                                    *)
C11_NotPendingAnswered404 ==
    [][ (DecisionAnswered(resp') /\ NotPending(resp'.req.id))
        => (resp'.code = 404 /\ ledger' = ledger) ]_vars

----------------------------------------------------------------------------
\* a booking that is not pending is not pending after the step either
StaysDecided ==
    \A i \in DOMAIN ledger :
        ledger[i].status # "pending" => ledger'[i].status # "pending"

\* a step that answers an approval request: a success has turned the
\* pending booking into what the request says, anything else has written
\* nothing
C12_Step ==
    /\ StaysDecided
    /\ resp'.req.op = "approve"
       => LET q == resp'.req
          IN  IF resp'.code = 200
              THEN /\ q.id \in DOMAIN ledger
                   /\ ledger[q.id].status = "pending"
                   /\ ledger'[q.id].status = q.status
                   /\ ledger'[q.id].approved_by = Some(q.actor)
                   /\ ledger'[q.id].admin_notes = q.admin_notes
              ELSE ledger' = ledger

(* C12: of the approval requests of administrators that run concurrently   *)
(* on one pending booking at most one reports success: a success is        *)
(* reported only by the step that finds the booking pending and makes it   *)
(* approved or rejected, the booking never becomes pending again, and the  *)
(* requests that do not succeed write nothing, so status, approved_by and  *)
(* admin_notes are those of the one that succeeded.                        *)
C12_OneDecisionWins == [][C12_Step]_vars

C12_Witness ==
    /\ resp.req.op = "approve" /\ resp.code = 200
    /\ \E q \in InFlight :
          /\ q.op = "approve" /\ q.id = resp.req.id
          /\ q.actor # resp.req.actor
          /\ q.status # resp.req.status
    /\ ledger[resp.req.id].approved_by = Some(resp.req.actor)

----------------------------------------------------------------------------
(* C13: a booking that is rejected stays rejected and one that is          *)
(* cancelled stays cancelled, whatever is called.  cancelBooking refuses   *)
(* only a booking that is already cancelled, so it cancels a rejected one. *)
C13_TerminalStatuses ==
    [][ \A i \in DOMAIN ledger :
            ledger[i].status \in {"rejected", "cancelled"}
            => ledger'[i].status = ledger[i].status ]_vars

----------------------------------------------------------------------------
\* a pending booking is as createBooking stored it: on a facility that
\* requires approval, with no approver, approval time or notes
PendingAsCreated ==
    \A i \in DOMAIN ledger :
        ledger[i].status = "pending"
        => /\ Facilities[ledger[i].facility_id].requires_approval
           /\ ledger[i].approved_by = Null
           /\ ledger[i].approved_at = Null
           /\ ledger[i].admin_notes = Null

(* C14: once a booking's status differs from pending no step of any        *)
(* request, in any interleaving, makes it pending again; a pending booking *)
(* was created pending and carries no trace of a decision.                 *)
C14_NoWayBackToPending == []PendingAsCreated /\ [][StaysDecided]_vars

C14_Witness ==
    /\ DecisionAnswered(resp)
    /\ resp.code # 200
    /\ resp.req.id \in DOMAIN ledger
    /\ ledger[resp.req.id].status = "cancelled"
    /\ ledger[resp.req.id].approved_by # Null
    /\ \E q \in InFlight : q.op = "cancel" /\ q.id = resp.req.id

----------------------------------------------------------------------------
\* the row a decision leaves: status, approver and approval time from the
\* request, notes from the request when it carries any
Decided(row, q) ==
    [ facility_id |-> row.facility_id,
      user_id |-> row.user_id,
      booking_date |-> row.booking_date,
      start_time |-> row.start_time,
      end_time |-> row.end_time,
      status |-> q.status,
      admin_notes |-> IF q.admin_notes # Null THEN q.admin_notes
                      ELSE row.admin_notes,
      approved_by |-> Some(q.actor),
      approved_at |-> Some(now) ]

----------------------------------------------------------------------------
(* Words of cancelBooking's claims.  The steps are read with the ledger    *)
(* and the clock as they are before the step, which is what the request    *)
(* finds.                                                                  *)

\* canCancel(actor, booking): the actor is an administrator or the owner
CanCancel(actor, id) ==
    IsAdministrator(actor) \/ ledger[id].user_id = actor

\* the combined date and start time of booking id is before the clock
StartHasPassed(id) ==
    ledger[id].booking_date * MinutesPerDay + ledger[id].start_time
        < now * MinutesPerTick

\* the step is a cancelBooking that arrives for a stored booking, reads it
\* without a store fault and is answered or sent on to its update
CancelArrives(q) ==
    /\ q.op = "cancel"
    /\ q.id \in DOMAIN ledger
    /\ q \notin InFlight
    /\ \/ resp'.req = q /\ ~resp'.fault
       \/ resp' = NoResp /\ inflight' = inflight (+) SetToBag({q})

\* the cancelBooking requests that may arrive
CancelRequests ==
    { [ BlankRequest EXCEPT !.op = "cancel", !.pc = "cancel",
                           !.actor = a, !.id = i ] :
        a \in UserIds, i \in DOMAIN ledger }

\* the arriving request is refused with this code and error, and writes
\* nothing
Refused(q, code, error) ==
    /\ resp'.req = q
    /\ resp'.code = code /\ resp'.error = error
    /\ ledger' = ledger
    /\ inflight' = inflight

(* C15: cancelBooking on a stored booking by an actor who is neither its   *)
(* owner nor an administrator is answered 403 and leaves the ledger as it  *)
(* was; the request of an administrator, for any booking, and of the owner *)
(* is never answered 403.                                                  *)
C15_OwnerOrAdministrator ==
    [][ \A q \in CancelRequests :
            CancelArrives(q)
            => IF CanCancel(q.actor, q.id)
               THEN ~(resp'.req = q /\ resp'.code = 403)
               ELSE Refused(q, 403, "Access denied") ]_vars

C15_Witness ==
    /\ resp.req.op = "cancel" /\ resp.code = 403
    /\ resp.req.actor = "bob"
    /\ resp.req.id \in DOMAIN ledger
    /\ ledger[resp.req.id].user_id = "alice"
    /\ ledger[resp.req.id].status = "approved"

----------------------------------------------------------------------------
\* booking id with nothing but its status changed, to cancelled
Cancelled(row) ==
    [ facility_id |-> row.facility_id,
      user_id |-> row.user_id,
      booking_date |-> row.booking_date,
      start_time |-> row.start_time,
      end_time |-> row.end_time,
      status |-> "cancelled",
      admin_notes |-> row.admin_notes,
      approved_by |-> row.approved_by,
      approved_at |-> row.approved_at ]

----------------------------------------------------------------------------
\* a cancelBooking is sent on to its update only for a booking whose start
\* has not passed, and the past-booking error is given only for one whose
\* start has passed
PastCheckIsStrict ==
    \A q \in CancelRequests :
        CancelArrives(q)
        => /\ q \in BagToSet(inflight') => ~StartHasPassed(q.id)
           /\ (resp'.req = q /\ resp'.error = "Cannot cancel past bookings")
              => StartHasPassed(q.id)

(* C17, as claimed: cancelBooking by the owner or an administrator on a    *)
(* booking whose start is strictly before the current moment is answered   *)
(* 400 with the past-booking error and writes nothing; a booking whose     *)
(* start is at or after the current moment is not refused by this check.   *)
(* A booking that is cancelled already is refused as such, its start       *)
(* passed or not.                                                          *)
C17_PastRefusedAsPast ==
    [][ /\ \A q \in CancelRequests :
              ( /\ CancelArrives(q)
                /\ CanCancel(q.actor, q.id)
                /\ StartHasPassed(q.id) )
              => Refused(q, 400, "Cannot cancel past bookings")
        /\ PastCheckIsStrict ]_vars

(* C17, amended: such a request on a booking that is not cancelled is      *)
(* answered 400 with the past-booking error, and on a cancelled booking    *)
(* 400 with the already-cancelled error; it writes nothing in both cases.  *)
(* A booking whose start is at or after the current moment is not refused  *)
(* by this check.                                                          *)
C17_PastRefused ==
    [][ /\ \A q \in CancelRequests :
              ( /\ CancelArrives(q)
                /\ CanCancel(q.actor, q.id)
                /\ StartHasPassed(q.id) )
              => IF ledger[q.id].status = "cancelled"
                 THEN Refused(q, 400, "Booking is already cancelled")
                 ELSE Refused(q, 400, "Cannot cancel past bookings")
        /\ PastCheckIsStrict ]_vars

C17_Witness ==
    /\ resp.req.op = "cancel"
    /\ resp.error = "Cannot cancel past bookings"
    /\ resp.req.actor = "admin"
    /\ ledger[resp.req.id].status = "approved"
    /\ now = 4

----------------------------------------------------------------------------
(* C18: cancelBooking by the owner or an administrator on a booking whose  *)
(* status is cancelled is answered 400 with the already-cancelled error    *)
(* and writes nothing.                                                     *)
C18_AlreadyCancelled ==
    [][ \A q \in CancelRequests :
            ( /\ CancelArrives(q)
              /\ CanCancel(q.actor, q.id)
              /\ ledger[q.id].status = "cancelled" )
            => Refused(q, 400, "Booking is already cancelled") ]_vars

C18_Witness ==
    /\ resp.req.op = "cancel"
    /\ resp.error = "Booking is already cancelled"
    /\ resp.req.actor = "admin"
    /\ ledger[resp.req.id].user_id = "alice"
    /\ ledger[resp.req.id].status = "cancelled"

----------------------------------------------------------------------------
\* canViewBooking(actor, booking)
MayView(actor, row) ==
    IsAdministrator(actor) \/ row.user_id = actor \/ row.status = "approved"

\* the booking is of the facility asked for and matches the status and
\* date filters that the listing request carries
MatchesFilters(q, row) ==
    /\ row.facility_id = q.facility_id
    /\ q.status = "none" \/ row.status = q.status
    /\ q.date = Null \/ row.booking_date = q.date[1]

\* the bookings the listing is to show
Listed(q) ==
    { i \in DOMAIN ledger :
        MatchesFilters(q, ledger[i]) /\ MayView(q.actor, ledger[i]) }

\* the bookings on the page the last response carries
Returned == { resp.items[k] : k \in DOMAIN resp.items }

(* C20: a facility listing selects a booking of that facility exactly when *)
(* it matches the status and date filters and the actor is an              *)
(* administrator, owns it, or it is approved.  The response counts exactly *)
(* those bookings, its page holds none but those, and all of them when the *)
(* first page is long enough; so a non-administrator never receives        *)
(* another user's pending, rejected or cancelled booking.                  *)
C20_ListingVisibility ==
    (resp.req.op = "list" /\ resp.code = 200)
    => /\ Returned \subseteq Listed(resp.req)
       /\ resp.total = Cardinality(Listed(resp.req))
       /\ (resp.req.page = 1 /\ resp.req.limit >= resp.total)
          => Returned = Listed(resp.req)
       /\ \A i \in Returned :
             ( /\ ~IsAdministrator(resp.req.actor)
               /\ ledger[i].user_id # resp.req.actor )
             => ledger[i].status \notin {"pending", "rejected", "cancelled"}

C20_Witness ==
    /\ resp.req.op = "list" /\ resp.code = 200
    /\ resp.req.actor = "alice"
    /\ resp.req.status = "none" /\ resp.req.date = Null
    /\ \E i \in Returned :
          ledger[i].user_id = "alice" /\ ledger[i].status = "rejected"
    /\ \E i \in DOMAIN ledger \ Returned :
          /\ ledger[i].facility_id = "bbq"
          /\ ledger[i].user_id = "bob"
          /\ ledger[i].status = "pending"

----------------------------------------------------------------------------
\* the step has added one row to the ledger, the one the response reports
OneRowInserted(r) ==
    /\ Len(ledger') = Len(ledger) + 1
    /\ r.row = Len(ledger')
    /\ \A i \in DOMAIN ledger : ledger'[i] = ledger[i]

\* the step has changed one row of the ledger, the one the request names
OneRowUpdated(r) ==
    /\ Len(ledger') = Len(ledger)
    /\ r.req.id \in DOMAIN ledger
    /\ ledger'[r.req.id] # ledger[r.req.id]
    /\ \A i \in DOMAIN ledger : i # r.req.id => ledger'[i] = ledger[i]

(* C21: a createBooking, approveOrReject or cancelBooking that reports a   *)
(* failure (4xx or 5xx, a failing store call in any step included) has     *)
(* written nothing; one that reports success has written exactly once, in  *)
(* the step that reports it: one row inserted for create, one row updated  *)
(* for approve and cancel.  A request that has reported is no longer in    *)
(* flight: nothing is retried.                                             *)
C21_AllOrNothing ==
    [][ IF resp'.req.op \in {"create", "approve", "cancel"}
        THEN /\ resp'.req \notin BagToSet(inflight')
             /\ IF resp'.code = 201 THEN OneRowInserted(resp')
                ELSE IF resp'.code = 200 THEN OneRowUpdated(resp')
                ELSE ledger' = ledger
        ELSE ledger' = ledger ]_vars

C21_Witness ==
    /\ resp.req.op = "create" /\ resp.req.pc = "insert"
    /\ resp.code = 500 /\ resp.fault
    /\ Len(ledger) = 1
    /\ ledger[1].status = "cancelled"

----------------------------------------------------------------------------
\* the bookings a listing request is to count: those of the facility that
\* match the filters and the actor may view, or the actor's own that match
\* the status filter
Counted(q) ==
    IF q.op = "list" THEN Listed(q)
    ELSE { i \in DOMAIN ledger :
             /\ ledger[i].user_id = q.actor
             /\ q.status = "none" \/ ledger[i].status = q.status }

\* booking i does not come after booking j in the order of the listing:
\* date then start time, ascending for a facility, descending for one's own
NotAfter(q, i, j) ==
    LET a == IF q.op = "list" THEN ledger[i] ELSE ledger[j]
        b == IF q.op = "list" THEN ledger[j] ELSE ledger[i]
    IN  \/ a.booking_date < b.booking_date
        \/ a.booking_date = b.booking_date /\ a.start_time <= b.start_time

\* the counted bookings in an order of the listing
OrderedListings(q) ==
    { full \in [ 1..Cardinality(Counted(q)) -> Counted(q) ] :
        /\ \A m, n \in DOMAIN full : m # n => full[m] # full[n]
        /\ \A m, n \in DOMAIN full : m < n => NotAfter(q, full[m], full[n]) }

----------------------------------------------------------------------------
(* C23: in every reachable state a pending booking has neither approved_by *)
(* nor approved_at, and an approved or rejected booking has both: the      *)
(* approver is the creator when the booking was approved at creation (its  *)
(* facility requires no approval) and an administrator who decided it      *)
(* otherwise.                                                              *)
C23_ApproverRecorded ==
    \A i \in DOMAIN ledger :
        LET row == ledger[i]
        IN  /\ row.status = "pending"
               => (row.approved_by = Null /\ row.approved_at = Null)
            /\ row.status \in {"approved", "rejected"}
               => /\ row.approved_by # Null
                  /\ row.approved_at # Null
                  /\ IF Facilities[row.facility_id].requires_approval
                     THEN IsAdministrator(row.approved_by[1])
                     ELSE /\ row.status = "approved"
                          /\ row.approved_by = Some(row.user_id)

C23_Witness ==
    /\ Len(ledger) = 2
    /\ \E i, j \in DOMAIN ledger :
          /\ ledger[i].facility_id = "tennis"
          /\ ledger[i].status = "approved"
          /\ ledger[i].approved_by = Some("alice")
          /\ ledger[j].facility_id = "bbq"
          /\ ledger[j].user_id = "alice"
          /\ ledger[j].status = "rejected"
          /\ ledger[j].approved_by = Some("admin")

----------------------------------------------------------------------------
(* C24: cancelBooking reports the first failure that applies, in the order *)
(* not found, forbidden, already cancelled, past booking: a request for an *)
(* id that is not stored is answered 404; one by an actor who is neither   *)
(* owner nor administrator 403, also when the booking is cancelled or      *)
(* past; one by the owner or an administrator on a cancelled booking the   *)
(* already-cancelled error, also when the booking is past; otherwise, on a *)
(* past booking, the past-booking error.  None of them writes.             *)
C24_CheckOrder ==
    [][ /\ ( /\ resp'.req.op = "cancel" /\ ~resp'.fault
             /\ resp'.req.id \notin DOMAIN ledger )
           => /\ resp'.code = 404 /\ resp'.error = "Booking not found"
              /\ ledger' = ledger
        /\ \A q \in CancelRequests :
              CancelArrives(q)
              => IF ~CanCancel(q.actor, q.id)
                 THEN Refused(q, 403, "Access denied")
                 ELSE IF ledger[q.id].status = "cancelled"
                 THEN Refused(q, 400, "Booking is already cancelled")
                 ELSE IF StartHasPassed(q.id)
                 THEN Refused(q, 400, "Cannot cancel past bookings")
                 ELSE resp' = NoResp ]_vars

C24_Witness ==
    /\ resp.req.op = "cancel"
    /\ resp.error = "Booking is already cancelled"
    /\ resp.req.actor = "alice"
    /\ ledger[resp.req.id].status = "cancelled"
    /\ StartHasPassed(resp.req.id)

----------------------------------------------------------------------------
\* today's date: the day the clock is in
Today == (now * MinutesPerTick) \div MinutesPerDay

(* C25: the validation of a booking request accepts a booking_date that is *)
(* today or later and refuses, with a 400 validation error and no booking  *)
(* created, one that is before today.  The schema compares the date, which *)
(* stands for its midnight, with the current moment, so that today's date  *)
(* is refused from midnight on.                                            *)
(* Read on the answers createBooking gives before its first query on the  *)
(* ledger (400 and 404), which are sent at the moment of the validation.   *)
C25_TodayOrLater ==
    (resp.req.op = "create" /\ resp.code \in {400, 404})
    => /\ resp.error = "Validation error" <=> resp.req.booking_date < Today
       /\ resp.row = 0

----------------------------------------------------------------------------
(* C26: every cancelBooking that reports success has itself moved the      *)
(* booking from pending or approved to cancelled, so that of the requests  *)
(* that cancel one booking concurrently at most one reports success.  The  *)
(* status is read in one store call and written in another, without a      *)
(* condition: two requests that both read before either writes both report *)
(* success.                                                                *)
C26_OneCancellationWins ==
    [][ (resp'.req.op = "cancel" /\ resp'.code = 200)
        => /\ ledger[resp'.req.id].status \in {"pending", "approved"}
           /\ ledger'[resp'.req.id].status = "cancelled" ]_vars

----------------------------------------------------------------------------
\* the time of day s written with a two-digit hour
TwoDigitHour(s) == IF Len(s) = 4 THEN <<"0">> \o s ELSE s

(* C27: for the times createBookingSchema accepts, the operating-hours     *)
(* check of createBooking gives a time written with a one-digit hour the   *)
(* same outcome as the same time written with two digits.  The check       *)
(* compares strings: '9:00' is above every opening time that begins with   *)
(* a smaller digit, while '09:00' is below '10:00:00'.                      *)
C27_SpellingPlaysNoPart ==
    ( /\ resp.req.op = "create"
      /\ createBookingSchema(resp.req)
      /\ IsActiveFacility(resp.req.facility_id) )
    => LET hours == FacilityJson(resp.req.facility_id)
       IN  OutsideOperatingHours(resp.req.start_time, resp.req.end_time, hours)
           <=> OutsideOperatingHours(TwoDigitHour(resp.req.start_time),
                                     TwoDigitHour(resp.req.end_time), hours)

----------------------------------------------------------------------------
(* C28: once a booking is stored, no step of any request, in any           *)
(* interleaving, changes its facility_id, user_id, booking_date,           *)
(* start_time or end_time, and no booking leaves the ledger:               *)
(* approveOrReject and cancelBooking write status, approver, approval time *)
(* and notes only.                                                         *)
C28_BookingDataImmutable ==
    [][ \A i \in DOMAIN ledger :
            /\ i \in DOMAIN ledger'
            /\ ledger'[i].facility_id = ledger[i].facility_id
            /\ ledger'[i].user_id = ledger[i].user_id
            /\ ledger'[i].booking_date = ledger[i].booking_date
            /\ ledger'[i].start_time = ledger[i].start_time
            /\ ledger'[i].end_time = ledger[i].end_time ]_vars

C28_Witness ==
    /\ resp.req.op = "cancel" /\ resp.code = 200
    /\ LET row == ledger[resp.req.id]
       IN  /\ row.status = "cancelled"
           /\ row.approved_by = Some("admin")
           /\ row.admin_notes = Some("ok")
           /\ row.facility_id = "bbq" /\ row.user_id = "alice"
           /\ row.booking_date = 1
           /\ row.start_time = 11 * 60 /\ row.end_time = 12 * 60

----------------------------------------------------------------------------
(* C29: the admin_notes of a complaint change only in a step of a request  *)
(* an administrator made; an updateComplaint request of a resident, the    *)
(* owner included, leaves admin_notes as they were.                        *)
C29_OnlyAdministratorSetsNotes ==
    [][ \A i \in DOMAIN complaints :
            complaints'[i].admin_notes # complaints[i].admin_notes
                => IsAdministrator(resp'.req.actor) ]_vars

====
